---- MODULE Spec2Model ----
(***************************************************************************)
(* A model of src/python/main.py: the conversation loop Agent.run with its *)
(* inference step and tool dispatch, and the three file tools read_file,   *)
(* list_files and edit_file acting on a filesystem.                        *)
(*                                                                         *)
(* Text is modelled as follows.  The content of a file, old_str and        *)
(* new_str are sequences of characters.  A path is the sequence of its     *)
(* components (<<"d", "e">> is "d/e"); a path that ends with a separator    *)
(* has the empty string as its last component (<<"d", "e", "">> is "d/e/"). *)
(* Every other Python string the                                           *)
(* program builds is a record [tag, arg]: tag is the fixed text or the     *)
(* format of the string, arg the sequence (a path or a file content) that  *)
(* is formatted into it, <<>> when there is none.                          *)
(*                                                                         *)
(* The content of a file is the text that open(path, "r").read() yields    *)
(* and open(path, "w").write() is given.  The characters of the model are  *)
(* letters; a carriage return, which text mode translates on reading, is   *)
(* not among them.                                                         *)
(***************************************************************************)
EXTENDS Integers, Sequences, FiniteSets, TLC

VARIABLES
    api_key,          \* main.py:269, what os.environ.get("OPENROUTER_API_KEY") yields
    exit_code,        \* the exit status of the process, {} while it runs
    pc,               \* position of main and Agent.run: "main", "exit", "loop", "infer",
                      \* "tools", "done", "raised"
    read_user_input,  \* main.py:40
    conversation,     \* main.py:36
    message,          \* main.py:52, the reply of the last inference step
    tool_results,     \* main.py:62
    idx,              \* position of the for loop of main.py:64 in message["tool_calls"]
    n_infer,          \* number of calls of run_inference so far
    n_exec,           \* number of calls of execute_tool so far
    fs,               \* the filesystem under the working directory
    fs_at_reply,      \* the filesystem when the last reply of the model arrived
    last              \* the last direct call of a tool function and what it returned

vars == <<api_key, exit_code, pc, read_user_input, conversation, message, tool_results, idx,
          n_infer, n_exec, fs, fs_at_reply, last>>

-----------------------------------------------------------------------------
(* Bounds of the model *)

\* longest old_str / new_str of a tool call
MaxStr == 2
\* longest content of a file of the initial filesystem
MaxContent == 2
\* most tool calls the model requests in one run, over all its replies
MaxCalls == 2
\* most inference steps of one run
MaxTurns == 3

Chars == {"a", "b"}

RECURSIVE SeqsUpTo(_, _)
SeqsUpTo(S, n) ==
    IF n = 0 THEN {<<>>}
    ELSE LET shorter == SeqsUpTo(S, n - 1)
         IN  shorter \cup {Append(s, c) : s \in shorter, c \in S}

Strs == SeqsUpTo(Chars, MaxStr)
Contents == SeqsUpTo(Chars, MaxContent)

\* The paths of the model: a directory d that may hold a subdirectory e with a
\* file f, and a file g.
Paths == {<<"d">>, <<"d", "e">>, <<"d", "e", "f">>, <<"d", "g">>}
\* The paths a tool is called with: these, and "d/e/".
ArgPaths == Paths \cup {<<"d", "e", "">>}

-----------------------------------------------------------------------------
(* Strings *)

Str(tag, arg) == [tag |-> tag, arg |-> arg]
Text(tag) == Str(tag, <<>>)
None == Text("None")

IsPrefix(s, t) == Len(s) <= Len(t) /\ SubSeq(t, 1, Len(s)) = s

\* s[i..] starts with the non-empty sequence old
MatchAt(s, old, i) ==
    /\ i + Len(old) - 1 <= Len(s)
    /\ SubSeq(s, i, i + Len(old) - 1) = old

Occurs(s, old) == \E i \in 1..Len(s) : MatchAt(s, old, i)

\* str.replace(old, new) from position i on: the matches are found scanning left
\* to right, each search resuming after the end of the previous match.
RECURSIVE ReplaceFrom(_, _, _, _)
\* (the variant str.replace(old, new, 1), which replaces the first match only)
ReplaceFromFirstOnly(s, old, new, i) ==
    IF i > Len(s) THEN <<>>
    ELSE IF MatchAt(s, old, i)
         THEN new \o SubSeq(s, i + Len(old), Len(s))
         ELSE <<s[i]>> \o ReplaceFrom(s, old, new, i + 1)
ReplaceFrom(s, old, new, i) ==
    IF i > Len(s) THEN <<>>
    ELSE IF MatchAt(s, old, i)
         THEN new \o ReplaceFrom(s, old, new, i + Len(old))
         ELSE <<s[i]>> \o ReplaceFrom(s, old, new, i + 1)

RECURSIVE Intersperse(_, _, _)
Intersperse(s, new, i) ==
    IF i > Len(s) THEN new ELSE new \o <<s[i]>> \o Intersperse(s, new, i + 1)

\* content.replace(old_str, new_str): an empty old matches before every character
\* and at the end.
Replace(s, old, new) ==
    IF old = <<>> THEN Intersperse(s, new, 1) ELSE ReplaceFrom(s, old, new, 1)

-----------------------------------------------------------------------------
(* The filesystem *)

NoEntry == [kind |-> "none", content |-> <<>>]
DirEntry == [kind |-> "dir", content |-> <<>>]
FileEntry(c) == [kind |-> "file", content |-> c]

Parent(p) == SubSeq(p, 1, Len(p) - 1)
Ancestors(p) == {SubSeq(p, 1, n) : n \in 1..(Len(p) - 1)}

\* An entry exists only inside a directory.
WellFormed(f) ==
    \A p \in Paths : (Len(p) > 1 /\ f[p].kind # "none") => f[Parent(p)].kind = "dir"

EmptyFS == [p \in Paths |-> NoEntry]

InitialFS ==
    {f \in [Paths -> {NoEntry, DirEntry} \cup {FileEntry(c) : c \in Contents}] :
        WellFormed(f)}

\* A path that ends with a separator names the directory before it.
TrailingSep(p) == p # <<>> /\ p[Len(p)] = ""
PurePath(p) == IF TrailingSep(p) THEN Parent(p) ELSE p

\* os.stat(path): a path that ends with a separator is found only if it names a
\* directory.
Lookup(f, p) ==
    IF TrailingSep(p)
    THEN IF f[PurePath(p)].kind = "dir" THEN DirEntry ELSE NoEntry
    ELSE f[p]

\* os.path.exists(path)
Exists(f, p) == Lookup(f, p).kind # "none"

\* The ancestor of p at which a path lookup fails with ENOTDIR, if any: the
\* shortest ancestor that is a regular file.
FileAncestors(f, p) == {q \in Ancestors(p) : f[q].kind = "file"}
ShortestOf(S) == CHOOSE q \in S : \A r \in S : Len(q) <= Len(r)

\* os.makedirs(parent_dir), called when parent_dir does not exist: every missing
\* ancestor directory is created, from the top; below a regular file mkdir
\* fails and nothing is created.
MakeDirs(f, dir) ==
    LET files == FileAncestors(f, dir)
        chain == Ancestors(dir) \cup {dir}
    IN  IF files # {}
        THEN [ok |-> FALSE,
              error |-> Str("[Errno 20] Not a directory: {path}",
                            SubSeq(dir, 1, Len(ShortestOf(files)) + 1)),
              fs |-> f]
        ELSE [ok |-> TRUE,
              error |-> None,
              fs |-> [p \in Paths |-> IF p \in chain /\ f[p].kind = "none"
                                      THEN DirEntry ELSE f[p]]]

-----------------------------------------------------------------------------
(* The arguments of a tool call *)

\* What json.loads(arguments) yields: a dict (a function from some of the keys
\* to their values), a JSON value that is no dict (null stands for these), or a
\* JSONDecodeError for text that is not JSON.
Keys == {"path", "old_str", "new_str"}
Object(d) == [kind |-> "object", obj |-> d]
Null == [kind |-> "null", obj |-> [k \in {} |-> <<>>]]
Malformed == [kind |-> "malformed", obj |-> [k \in {} |-> <<>>]]

Has(d, k) == k \in DOMAIN d
\* dict.get(k, default)
Get(d, k, default) == IF k \in DOMAIN d THEN d[k] ELSE default

Dict(K, path, old_str, new_str) ==
    [k \in K |-> CASE k = "path" -> path
                  [] k = "old_str" -> old_str
                  [] k = "new_str" -> new_str]

\* The arguments read_file and list_files are called with: a path, the empty
\* dict, and null.
PathInputs ==
    {Object(Dict({"path"}, p, <<>>, <<>>)) : p \in ArgPaths}
    \cup {Object(Dict({}, <<>>, <<>>, <<>>)), Null}

\* The dicts a tool function is called with: all three keys, the path alone,
\* old_str and new_str without a path, and the empty dict.
EditInputs ==
    {Object(Dict(Keys, p, o, n)) : p \in ArgPaths, o \in Strs, n \in Strs}
    \cup {Object(Dict({"path"}, p, <<>>, <<>>)) : p \in ArgPaths}
    \cup {Object(Dict({"old_str", "new_str"}, <<>>, o, n)) : o \in Strs, n \in Strs}
    \cup {Object(Dict({}, <<>>, <<>>, <<>>)), Null}

-----------------------------------------------------------------------------
(* The tool functions.  Each yields what it returns or the message of the    *)
(* exception it raises, and the filesystem it leaves.                        *)

Returned(v, f) == [raised |-> FALSE, value |-> v, fs |-> f]
Raises(v, f) == [raised |-> TRUE, value |-> v, fs |-> f]

NotIterable == Text("argument of type 'NoneType' is not iterable")
NoAttributeGet == Text("'NoneType' object has no attribute 'get'")
IsADirectory(p) == Str("[Errno 21] Is a directory: {path}", p)
NotADirectory(p) == Str("[Errno 20] Not a directory: {path}", p)
NoSuchFile(p) == Str("[Errno 2] No such file or directory: {path}", p)

\* open(path, "r").read()
OpenRead(f, p) ==
    CASE Lookup(f, p).kind = "file" ->
            [ok |-> TRUE, data |-> Lookup(f, p).content, error |-> None]
      [] Lookup(f, p).kind = "dir" ->
            [ok |-> FALSE, data |-> <<>>, error |-> IsADirectory(p)]
      [] OTHER -> [ok |-> FALSE, data |-> <<>>,
                   error |-> IF FileAncestors(f, p) # {} THEN NotADirectory(p)
                             ELSE NoSuchFile(p)]

\* open(path, "w").write(data): a path that ends with a separator cannot be
\* opened for writing, whatever it names.
OpenWrite(f, p, data) ==
    LET q == PurePath(p) IN
    CASE Lookup(f, p).kind = "dir" -> [ok |-> FALSE, error |-> IsADirectory(p), fs |-> f]
      [] FileAncestors(f, q) # {} -> [ok |-> FALSE, error |-> NotADirectory(p), fs |-> f]
      [] Len(q) > 1 /\ f[Parent(q)].kind = "none" ->
            [ok |-> FALSE, error |-> NoSuchFile(p), fs |-> f]
      [] TrailingSep(p) -> [ok |-> FALSE, error |-> IsADirectory(p), fs |-> f]
      [] OTHER -> [ok |-> TRUE, error |-> None, fs |-> [f EXCEPT ![p] = FileEntry(data)]]

\* (the variant that opens the file with mode "a+", which creates a missing file)
read_file_append_mode(f, input_data) ==
    IF input_data.kind # "object" THEN Raises(NotIterable, f)
    ELSE LET d == input_data.obj IN
    IF ~Has(d, "path") THEN Returned(Text("Path parameter is required"), f)
    ELSE LET r == OpenRead(f, d["path"])
             w == OpenWrite(f, d["path"], <<>>)
         IN  IF r.ok THEN Returned(Str("{content}", r.data), f)
             ELSE IF Lookup(f, d["path"]).kind = "none" /\ w.ok
             THEN Returned(Str("{content}", <<>>), w.fs)
             ELSE Returned(r.error, f)
read_file(f, input_data) ==
    IF input_data.kind # "object" THEN Raises(NotIterable, f)
    ELSE LET d == input_data.obj IN
    IF ~Has(d, "path") THEN Returned(Text("Path parameter is required"), f)
    ELSE LET r == OpenRead(f, d["path"]) IN
         IF r.ok THEN Returned(Str("{content}", r.data), f) ELSE Returned(r.error, f)

\* The order in which the operating system enumerates a directory is not
\* specified: an order of the names, chosen by the environment at each call.
ScanOrders == {<<"d", "e", "f", "g">>, <<"g", "f", "e", "d">>}

Position(order, name) == CHOOSE i \in 1..Len(order) : order[i] = name

\* the entries of directory dir, in the order of enumeration
Children(f, dir) == {p \in Paths : Len(p) = Len(dir) + 1 /\ Parent(p) = dir /\ Exists(f, p)}
RECURSIVE Sorted(_, _)
Sorted(S, order) ==
    IF S = {} THEN <<>>
    ELSE LET p == CHOOSE q \in S : \A r \in S :
                      Position(order, q[Len(q)]) <= Position(order, r[Len(r)])
         IN  <<p>> \o Sorted(S \ {p}, order)

\* Path(dir_path).glob("**/*"): the directories under dir_path, dir_path first and
\* each before its subdirectories, and for each of them its entries.
RECURSIVE Walk(_, _, _)
RECURSIVE WalkAll(_, _, _, _)
\* (the variant glob("*"), which does not descend)
WalkTopOnly(f, dir, order) == <<dir>>
Walk(f, dir, order) ==
    <<dir>> \o WalkAll(f, Sorted({p \in Children(f, dir) : f[p].kind = "dir"}, order),
                       order, 1)
WalkAll(f, dirs, order, i) ==
    IF i > Len(dirs) THEN <<>>
    ELSE Walk(f, dirs[i], order) \o WalkAll(f, dirs, order, i + 1)
RECURSIVE Glob(_, _, _, _)
Glob(f, dirs, order, i) ==
    IF i > Len(dirs) THEN <<>>
    ELSE Sorted(Children(f, dirs[i]), order) \o Glob(f, dirs, order, i + 1)

\* str(p.relative_to(dir_path)), with "/" appended for a directory
RECURSIVE Join(_, _)
Join(p, i) == IF i = Len(p) THEN p[i] ELSE p[i] \o "/" \o Join(p, i + 1)
ListEntry(f, dir, p) ==
    LET rel == Join(p, Len(dir) + 1)
    IN  IF f[p].kind = "dir" THEN rel \o "/" ELSE rel

list_files(f, input_data, order) ==
    IF input_data.kind # "object" THEN Raises(NoAttributeGet, f)
    ELSE
    LET dir_path == PurePath(Get(input_data.obj, "path", <<>>))
        found == IF dir_path = <<>> \/ f[dir_path].kind = "dir"
                 THEN Glob(f, Walk(f, dir_path, order), order, 1)
                 ELSE <<>>
    IN  Returned(Str("json.dumps({files})",
                     [i \in 1..Len(found) |-> ListEntry(f, dir_path, found[i])]), f)

\* main.py:165, the comparison of old_str with new_str
\* (the variant that lets two empty strings pass)
EqualNonEmptyOnly(old_str, new_str) == old_str = new_str /\ old_str # <<>>
Equal(old_str, new_str) == old_str = new_str

\* main.py:171-186, the branch of edit_file for a path that exists
\* (the variant without the test content == new_content of main.py:180)
EditExistingAlwaysWrites(f, path, old_str, new_str) ==
    LET r == OpenRead(f, path)
        new_content == Replace(r.data, old_str, new_str)
        w == OpenWrite(f, path, new_content)
    IN  IF ~r.ok THEN Returned(r.error, f)
        ELSE IF old_str = <<>>
        THEN Returned(Text("File already exists, and old_str is empty"), f)
        ELSE IF w.ok THEN Returned(Text("OK"), w.fs) ELSE Returned(w.error, w.fs)
EditExisting(f, path, old_str, new_str) ==
    LET r == OpenRead(f, path)
        new_content == Replace(r.data, old_str, new_str)
        w == OpenWrite(f, path, new_content)
    IN  IF ~r.ok THEN Returned(r.error, f)
        ELSE IF old_str = <<>>
        THEN Returned(Text("File already exists, and old_str is empty"), f)
        ELSE IF r.data = new_content
        THEN Returned(Text("old_str not found in file"), f)
        ELSE IF w.ok THEN Returned(Text("OK"), w.fs) ELSE Returned(w.error, w.fs)

\* main.py:189-200, the branch of edit_file for a path that does not exist
\* (the variant without os.makedirs)
CreateNewWithoutMakedirs(f, path, old_str, new_str) ==
    LET w == OpenWrite(f, path, new_str)
    IN  IF old_str # <<>> THEN Returned(Str("File {path} does not exist", path), f)
        ELSE IF w.ok
        THEN Returned(Str("Successfully created file {path}", path), w.fs)
        ELSE Returned(w.error, w.fs)
\* (the variant that calls os.makedirs before it looks at old_str)
CreateNewMakedirsFirst(f, path, old_str, new_str) ==
    LET parent_dir == Parent(path)
        made == IF parent_dir # <<>> /\ ~Exists(f, parent_dir)
                THEN MakeDirs(f, parent_dir)
                ELSE [ok |-> TRUE, error |-> None, fs |-> f]
        w == OpenWrite(made.fs, path, new_str)
    IN  IF ~made.ok THEN Returned(made.error, made.fs)
        ELSE IF old_str # <<>>
        THEN Returned(Str("File {path} does not exist", path), made.fs)
        ELSE IF w.ok
        THEN Returned(Str("Successfully created file {path}", path), w.fs)
        ELSE Returned(w.error, w.fs)
CreateNew(f, path, old_str, new_str) ==
    LET parent_dir == Parent(path)
        made == IF parent_dir # <<>> /\ ~Exists(f, parent_dir)
                THEN MakeDirs(f, parent_dir)
                ELSE [ok |-> TRUE, error |-> None, fs |-> f]
        w == OpenWrite(made.fs, path, new_str)
    IN  IF old_str # <<>> THEN Returned(Str("File {path} does not exist", path), f)
        ELSE IF ~made.ok THEN Returned(made.error, made.fs)
        ELSE IF w.ok
        THEN Returned(Str("Successfully created file {path}", path), w.fs)
        ELSE Returned(w.error, w.fs)

edit_file(f, input_data) ==
    IF input_data.kind # "object" THEN Raises(NotIterable, f)
    ELSE LET d == input_data.obj IN
    IF ~Has(d, "path") THEN Returned(Text("Path parameter is required"), f)
    ELSE
    LET path == d["path"]
        old_str == Get(d, "old_str", <<>>)
        new_str == Get(d, "new_str", <<>>)
    IN  IF Equal(old_str, new_str)
        THEN Returned(Text("old_str and new_str must be different"), f)
        ELSE IF Exists(f, path)
        THEN EditExisting(f, path, old_str, new_str)
        ELSE CreateNew(f, path, old_str, new_str)

-----------------------------------------------------------------------------
(* Tool dispatch *)

\* main.py:28-32
tool_functions == {"read_file", "list_files", "edit_file"}

\* self.tool_functions[name](input_data)
CallToolFunction(f, name, input_data, order) ==
    CASE name = "read_file" -> read_file(f, input_data)
      [] name = "list_files" -> list_files(f, input_data, order)
      [] name = "edit_file" -> edit_file(f, input_data)

\* Agent.execute_tool: an exception of the tool function becomes the result.
\* (the variant that looks the name up without the test of main.py:91)
execute_tool_unknown_raises(f, id, name, input_data, order) ==
    IF name \notin tool_functions
    THEN Raises(Str("KeyError: {name}", <<name>>), f)
    ELSE LET r == CallToolFunction(f, name, input_data, order)
         IN  Returned(r.value, r.fs)
execute_tool(f, id, name, input_data, order) ==
    IF name \notin tool_functions
    THEN Returned(Text("Tool not found"), f)
    ELSE LET r == CallToolFunction(f, name, input_data, order)
         IN  Returned(r.value, r.fs)

-----------------------------------------------------------------------------
(* Messages *)

\* The value under "tool_calls" of a dict: the key is absent, the value is None,
\* or the value is a list.
Absent == [tag |-> "absent", items |-> <<>>]
NoneCalls == [tag |-> "none", items |-> <<>>]
List(items) == [tag |-> "list", items |-> items]

\* message.get("tool_calls", [])
GetToolCalls(m) == IF m.tool_calls.tag = "absent" THEN List(<<>>) ELSE m.tool_calls
\* the truth value of message.get("tool_calls")
HasToolCalls(m) == m.tool_calls.tag = "list" /\ m.tool_calls.items # <<>>

ToolCall(id, name, arguments) ==
    [id |-> id, function |-> [name |-> name, arguments |-> arguments]]

UserMessage(content) ==
    [role |-> "user", content |-> content, tool_calls |-> Absent, tool_call_id |-> ""]
AssistantMessage(m) ==
    [role |-> "assistant", content |-> m.content, tool_calls |-> GetToolCalls(m),
     tool_call_id |-> ""]
ToolMessage(id, result) ==
    [role |-> "tool", content |-> result, tool_calls |-> Absent, tool_call_id |-> id]

\* main.py:70-74, with a plausible slip: the id of the first call for every result
ToolResultFirstId(calls, i, result) == ToolMessage(calls[1].id, result)
ToolResult(calls, i, result) == ToolMessage(calls[i].id, result)

\* main.py:122-124, the message run_inference returns when the call fails
\* (the variant that sets "tool_calls" to None)
ErrorReplyWithNoneCalls == [content |-> Text("Error: {e}"), tool_calls |-> NoneCalls]
ErrorReply == [content |-> Text("Error: {e}"), tool_calls |-> Absent]

-----------------------------------------------------------------------------
(* What the environment supplies *)

\* the lines the user types
UserInputs == {Text("hello")}

GPath == <<"d", "g">>

\* the tool calls the model asks for: name and arguments
Requests ==
    { <<"edit_file", Object(Dict(Keys, GPath, <<>>, <<"a">>))>>,
      <<"edit_file", Object(Dict(Keys, GPath, <<"a">>, <<"b">>))>>,
      <<"read_file", Object(Dict({"path"}, GPath, <<>>, <<>>))>>,
      <<"list_files", Object(Dict({}, <<>>, <<>>, <<>>))>>,
      <<"list_files", Null>>,
      <<"delete_file", Object(Dict({"path"}, GPath, <<>>, <<>>))>>,
      <<"edit_file", Malformed>> }

CallId(k) == "call_" \o ToString(k)

\* the lists of n tool calls, the k-th with the id call_k
RECURSIVE CallLists(_)
CallLists(n) ==
    IF n = 0 THEN {<<>>}
    ELSE {Append(calls, ToolCall(CallId(n), r[1], r[2])) :
             calls \in CallLists(n - 1), r \in Requests}

\* message.model_dump() of a reply of the remote model with at most n tool calls
Replies(n) ==
    {[content |-> Text("Hi"), tool_calls |-> NoneCalls],
     [content |-> Text("Hi"), tool_calls |-> List(<<>>)]}
    \cup {[content |-> None, tool_calls |-> List(calls)] :
             calls \in UNION {CallLists(k) : k \in 1..n}}

-----------------------------------------------------------------------------
(* Agent.run *)

RECURSIVE CallsRequested(_)
CallsRequested(conv) ==
    IF conv = <<>> THEN 0
    ELSE Len(conv[Len(conv)].tool_calls.items) + CallsRequested(SubSeq(conv, 1, Len(conv) - 1))

NoCall == [n |-> 0, name |-> "", input |-> Null, result |-> None, raised |-> FALSE,
           first |-> None, before |-> EmptyFS]

\* os.environ.get: the variable is not set, or set to a value
Unset == [set |-> FALSE, value |-> ""]
Env(v) == [set |-> TRUE, value |-> v]
ApiKeys == {Unset, Env(""), Env("sk-key")}

\* main.py:36-40, the locals of Agent.run at its start
RunStarts ==
    /\ read_user_input = TRUE
    /\ conversation = <<>>
    /\ message = [content |-> None, tool_calls |-> [tag |-> "absent", items |-> <<>>]]
    /\ tool_results = <<>>
    /\ idx = 0
    /\ n_infer = 0
    /\ n_exec = 0

\* Agent.run has been entered, main.py:280
AgentIdle ==
    /\ api_key = Env("sk-key")
    /\ exit_code = {}
    /\ pc = "loop"
    /\ RunStarts

agent_vars == <<api_key, exit_code, pc, read_user_input, conversation, message, tool_results,
                idx, n_infer, n_exec, fs_at_reply>>

\* the working directory the agent is started in
AgentInitialFS ==
    {EmptyFS, [EmptyFS EXCEPT ![<<"d">>] = DirEntry, ![GPath] = FileEntry(<<"a", "a">>)]}

\* the process starts at main
Init ==
    /\ api_key \in ApiKeys
    /\ exit_code = {}
    /\ pc = "main"
    /\ RunStarts
    /\ fs \in AgentInitialFS
    /\ fs_at_reply = fs
    /\ last = NoCall

\* main.py:269-280: without a key main prints the remedy and exits with status 1;
\* with one it builds the agent and calls run
\* (the variant that tests "api_key is None")
StartupChecksAbsenceOnly ==
    /\ pc = "main"
    /\ IF ~api_key.set
       THEN pc' = "exit" /\ exit_code' = {1}
       ELSE pc' = "loop" /\ exit_code' = exit_code
    /\ UNCHANGED <<api_key, read_user_input, conversation, message, tool_results, idx,
                   n_infer, n_exec, fs, fs_at_reply, last>>
Startup ==
    /\ pc = "main"
    /\ IF ~api_key.set \/ api_key.value = ""
       THEN pc' = "exit" /\ exit_code' = {1}
       ELSE pc' = "loop" /\ exit_code' = exit_code
    /\ UNCHANGED <<api_key, read_user_input, conversation, message, tool_results, idx,
                   n_infer, n_exec, fs, fs_at_reply, last>>

\* main.py:76-82, the flag after the tool calls of a reply: whether the loop
\* reads the user next (the variant that never clears the flag)
NextReadsUserAlways(results) == TRUE
NextReadsUser(results) == results = <<>>

\* main.py:81, conversation.extend(tool_results), and a slip that assigns instead
Assigned(conv, results) == results
Extend(conv, results) == conv \o results

\* main.py:43-50 with get_user_message of main.py:282-285: a line is read
UserInput(line) ==
    /\ pc = "loop"
    /\ read_user_input
    /\ conversation' = Append(conversation, UserMessage(line))
    /\ pc' = "infer"
    /\ UNCHANGED <<api_key, exit_code, read_user_input, message, tool_results, idx, n_infer,
                   n_exec, fs, fs_at_reply, last>>

\* main.py:43-47 with main.py:286-287: end of input or an interrupt at the
\* prompt; get_user_message returns ("", False) and the loop is left
\* (the variant in which get_user_message does not catch EOFError)
EndOfInputRaises ==
    /\ pc = "loop"
    /\ read_user_input
    /\ pc' = "raised"
    /\ exit_code' = {1}
    /\ UNCHANGED <<api_key, read_user_input, conversation, message, tool_results, idx,
                   n_infer, n_exec, fs, fs_at_reply, last>>
EndOfInput ==
    /\ pc = "loop"
    /\ read_user_input
    /\ pc' = "done"
    /\ exit_code' = {0}
    /\ UNCHANGED <<api_key, read_user_input, conversation, message, tool_results, idx,
                   n_infer, n_exec, fs, fs_at_reply, last>>

\* main.py:43, the flag is not set: no prompt
ContinueWithoutUser ==
    /\ pc = "loop"
    /\ ~read_user_input
    /\ pc' = "infer"
    /\ UNCHANGED <<api_key, exit_code, read_user_input, conversation, message, tool_results,
                   idx, n_infer, n_exec, fs, fs_at_reply, last>>

\* main.py:52-62: run_inference returns a message, which is appended
Infer(m) ==
    /\ pc = "infer"
    /\ n_infer < MaxTurns
    /\ n_infer' = n_infer + 1
    /\ message' = m
    /\ conversation' = Append(conversation, AssistantMessage(m))
    /\ tool_results' = <<>>
    /\ idx' = 1
    /\ pc' = "tools"
    /\ fs_at_reply' = fs
    /\ UNCHANGED <<api_key, exit_code, read_user_input, n_exec, fs, last>>

\* run_inference, main.py:104-120: the remote model replies
RunInference ==
    \E m \in Replies(MaxCalls - CallsRequested(conversation)) : Infer(m)

\* run_inference, main.py:122-124: the call fails
RunInferenceFails == Infer(ErrorReply)

\* main.py:64, the for loop takes the tool calls in the order of the list
\* (the variant that takes them from the last to the first)
NextToolCallReversed(calls, i) == calls[Len(calls) + 1 - i]
NextToolCall(calls, i) == calls[i]

\* main.py:63-74, one pass of the for loop: the arguments are parsed, the tool
\* is executed and its result kept; json.loads raises on text that is not JSON
ExecuteToolCall ==
    /\ pc = "tools"
    /\ HasToolCalls(message)
    /\ idx <= Len(message.tool_calls.items)
    /\ LET calls == message.tool_calls.items
           tool_call == NextToolCall(calls, idx)
       IN  IF tool_call.function.arguments.kind = "malformed"
           THEN /\ pc' = "raised"
                /\ exit_code' = {1}
                /\ UNCHANGED <<tool_results, idx, n_exec, fs>>
           ELSE \E order \in ScanOrders :
                  LET r == execute_tool(fs, tool_call.id, tool_call.function.name,
                                        tool_call.function.arguments, order)
                  IN  /\ n_exec' = n_exec + 1
                      /\ fs' = r.fs
                      /\ IF r.raised
                         THEN /\ pc' = "raised"
                              /\ exit_code' = {1}
                              /\ UNCHANGED <<tool_results, idx>>
                         ELSE /\ tool_results' =
                                    Append(tool_results, ToolResult(calls, idx, r.value))
                              /\ idx' = idx + 1
                              /\ pc' = "tools"
                              /\ exit_code' = exit_code
    /\ UNCHANGED <<api_key, read_user_input, conversation, message, n_infer, fs_at_reply,
                   last>>

\* main.py:76-82: after the last tool call, or with none
EndOfToolCalls ==
    /\ pc = "tools"
    /\ HasToolCalls(message) => idx > Len(message.tool_calls.items)
    /\ read_user_input' = NextReadsUser(tool_results)
    /\ conversation' = IF tool_results = <<>> THEN conversation
                       ELSE Extend(conversation, tool_results)
    /\ pc' = "loop"
    /\ UNCHANGED <<api_key, exit_code, message, tool_results, idx, n_infer, n_exec, fs,
                   fs_at_reply, last>>

\* main.py:84-87: a KeyboardInterrupt while the remote call or a tool call is
\* under way is no Exception, so run_inference and execute_tool let it pass; run
\* catches it and returns
\* (the variant that appends the results collected so far before it returns)
InterruptKeepsResults ==
    /\ pc \in {"infer", "tools"}
    /\ pc' = "done"
    /\ exit_code' = {0}
    /\ conversation' = IF pc = "tools" THEN conversation \o tool_results ELSE conversation
    /\ UNCHANGED <<api_key, read_user_input, message, tool_results, idx, n_infer, n_exec,
                   fs, fs_at_reply, last>>
Interrupt ==
    /\ pc \in {"infer", "tools"}
    /\ pc' = "done"
    /\ exit_code' = {0}
    /\ UNCHANGED <<api_key, read_user_input, conversation, message, tool_results, idx,
                   n_infer, n_exec, fs, fs_at_reply, last>>

Next ==
    \/ Startup
    \/ \E line \in UserInputs : UserInput(line)
    \/ EndOfInput
    \/ ContinueWithoutUser
    \/ RunInference
    \/ RunInferenceFails
    \/ ExecuteToolCall
    \/ EndOfToolCalls
    \/ Interrupt

Spec == Init /\ [][Next]_vars

-----------------------------------------------------------------------------
(* The tool functions called directly, on any filesystem: a call, and a      *)
(* second call with the same arguments.                                      *)

ToolInit ==
    /\ AgentIdle
    /\ fs \in InitialFS
    /\ fs_at_reply = fs
    /\ last = NoCall

\* edit_file(input_data)
CallEditFile(input_data) ==
    /\ last.n = 0
    /\ LET r == edit_file(fs, input_data)
       IN  /\ fs' = r.fs
           /\ last' = [n |-> 1, name |-> "edit_file", input |-> input_data,
                       result |-> r.value, raised |-> r.raised,
                       first |-> r.value, before |-> fs]
    /\ UNCHANGED agent_vars

\* the identical call of edit_file once more
RepeatEditFile ==
    /\ last.n = 1
    /\ last.name = "edit_file"
    /\ LET r == edit_file(fs, last.input)
       IN  /\ fs' = r.fs
           /\ last' = [last EXCEPT !.n = 2, !.result = r.value, !.raised = r.raised,
                                   !.before = fs]
    /\ UNCHANGED agent_vars

\* read_file(input_data)
CallReadFile(input_data) ==
    /\ last.n = 0
    /\ LET r == read_file(fs, input_data)
       IN  /\ fs' = r.fs
           /\ last' = [n |-> 1, name |-> "read_file", input |-> input_data,
                       result |-> r.value, raised |-> r.raised,
                       first |-> r.value, before |-> fs]
    /\ UNCHANGED agent_vars

\* list_files(input_data)
CallListFiles(input_data) ==
    /\ last.n = 0
    /\ \E order \in ScanOrders :
          LET r == list_files(fs, input_data, order)
          IN  /\ fs' = r.fs
              /\ last' = [n |-> 1, name |-> "list_files", input |-> input_data,
                          result |-> r.value, raised |-> r.raised,
                          first |-> r.value, before |-> fs]
    /\ UNCHANGED agent_vars

\* execute_tool(id, "delete_file", input_data), a name that is not registered
CallUnknownTool(input_data) ==
    /\ last.n = 0
    /\ \E order \in ScanOrders :
          LET r == execute_tool(fs, CallId(1), "delete_file", input_data, order)
          IN  /\ fs' = r.fs
              /\ last' = [n |-> 1, name |-> "delete_file", input |-> input_data,
                          result |-> r.value, raised |-> r.raised,
                          first |-> r.value, before |-> fs]
    /\ UNCHANGED agent_vars

ToolNext ==
    \/ \E input_data \in EditInputs : CallEditFile(input_data)
    \/ RepeatEditFile
    \/ \E input_data \in PathInputs : CallReadFile(input_data)
    \/ \E input_data \in PathInputs : CallListFiles(input_data)
    \/ \E input_data \in PathInputs : CallUnknownTool(input_data)

ToolSpec == ToolInit /\ [][ToolNext]_vars

-----------------------------------------------------------------------------
(* Claims about edit_file, under ToolSpec *)

\* the arguments of the last call, as edit_file reads them
LastIsEdit == last.n >= 1 /\ last.name = "edit_file" /\ last.input.kind = "object"
LastHasPath == LastIsEdit /\ Has(last.input.obj, "path")
LastPath == last.input.obj["path"]
LastOld == Get(last.input.obj, "old_str", <<>>)
LastNew == Get(last.input.obj, "new_str", <<>>)

\* The positions of s at which old occurs.
Occurrences(s, old) == {i \in 1..Len(s) : MatchAt(s, old, i)}

\* s with the occurrences of old that start at the positions of S replaced by new.
RECURSIVE Substitute(_, _, _, _, _)
Substitute(s, S, old, new, i) ==
    IF i > Len(s) THEN <<>>
    ELSE IF i \in S
         THEN new \o Substitute(s, S, old, new, i + Len(old))
         ELSE <<s[i]>> \o Substitute(s, S, old, new, i + 1)

\* r is s with every occurrence of old replaced by new: the replaced occurrences
\* do not overlap and no occurrence of old in s is left apart from them.
EveryOccurrenceReplaced(s, old, new, r) ==
    \E S \in SUBSET Occurrences(s, old) :
        /\ \A i \in S, j \in S : i < j => i + Len(old) <= j
        /\ \A i \in Occurrences(s, old) :
              \E j \in S : i < j + Len(old) /\ j < i + Len(old)
        /\ r = Substitute(s, S, old, new, 1)

\* the case of C7 and C8: an existing file, a non-empty old_str, another new_str
EditOfExistingFile ==
    /\ LastHasPath
    /\ Lookup(last.before, LastPath).kind = "file"
    /\ LastOld # <<>>
    /\ LastOld # LastNew

C8_Original_SecondCallNotFound ==
    (last.n = 2 /\ last.first = Text("OK")) =>
        /\ last.result = Text("old_str not found in file")
        /\ fs = last.before

\* C8 amended: when a call returned "OK" and old_str no longer occurs in the
\* content it left, the identical call made next returns "old_str not found in
\* file" and leaves the filesystem as it is.
C8_SecondCallNotFoundOnceGone ==
    (/\ last.n = 2
     /\ last.first = Text("OK")
     /\ ~Occurs(last.before[LastPath].content, LastOld)) =>
        /\ last.result = Text("old_str not found in file")
        /\ fs = last.before

\* an edit returned "OK" and the identical call then found nothing to replace
C8_Witness ==
    /\ last.n = 2
    /\ EditOfExistingFile
    /\ last.first = Text("OK")
    /\ last.result = Text("old_str not found in file")

Created(p) == Str("Successfully created file {path}", p)

\* the case of C9: a path that does not exist, no old_str, a non-empty new_str
CreateOfMissingPath ==
    /\ LastHasPath
    /\ last.n = 1
    /\ Lookup(last.before, LastPath).kind = "none"
    /\ LastOld = <<>>
    /\ LastNew # <<>>

\* what C9 says of the two calls
FileCreated ==
    /\ last.result = Created(LastPath)
    /\ fs[LastPath] = FileEntry(LastNew)
    /\ \A q \in Ancestors(LastPath) : fs[q].kind = "dir"
SecondCreateRejected ==
    (last.n = 2 /\ last.first = Created(LastPath)) =>
        /\ last.result = Text("File already exists, and old_str is empty")
        /\ fs = last.before

C10_Original_EqualAlwaysRejected ==
    (LastIsEdit /\ LastOld = LastNew) =>
        /\ last.result = Text("old_str and new_str must be different")
        /\ fs = last.before

\* C10 amended: every call that gives a path, with old_str equal to new_str,
\* returns "old_str and new_str must be different" and leaves the filesystem as
\* it was, whether or not the path exists.
C10_EqualRejectedGivenPath ==
    (LastHasPath /\ LastOld = LastNew) =>
        /\ last.raised = FALSE
        /\ last.result = Text("old_str and new_str must be different")
        /\ fs = last.before

\* the call was rejected for a path that does not exist, old_str and new_str
\* both omitted
C10_Witness ==
    /\ LastHasPath
    /\ DOMAIN last.input.obj = {"path"}
    /\ Lookup(last.before, LastPath).kind = "none"
    /\ last.result = Text("old_str and new_str must be different")

DoesNotExist(p) == Str("File {path} does not exist", p)

\* the case of C11: a path that does not exist and a non-empty old_str
EditOfMissingPath ==
    /\ LastHasPath
    /\ Lookup(last.before, LastPath).kind = "none"
    /\ LastOld # <<>>

-----------------------------------------------------------------------------
(* Claims about the effects of the tools on the filesystem, under ToolSpec *)

\* the only entries that differ are the path of the call and missing parent
\* directories of it, now directories
ChangeConfined ==
    \A p \in Paths :
        fs[p] # last.before[p] =>
            \/ p = LastPath
            \/ p \in Ancestors(LastPath) /\ last.before[p].kind = "none" /\ fs[p] = DirEntry

\* nothing differs but missing parent directories of the path, now directories
OnlyParentsCreated ==
    \A p \in Paths :
        fs[p] # last.before[p] =>
            p \in Ancestors(LastPath) /\ last.before[p].kind = "none" /\ fs[p] = DirEntry

EditSucceeded == LastHasPath /\ last.result \in {Text("OK"), Created(LastPath)}

\* what C14 says of every call but an edit_file that reports an error
WritesConfined ==
    /\ last.name \in {"read_file", "list_files", "delete_file"} => fs = last.before
    /\ last.name = "edit_file" =>
          IF LastHasPath THEN ChangeConfined ELSE fs = last.before

-----------------------------------------------------------------------------
(* Claims about list_files and read_file, under ToolSpec *)

LastIsList == last.n >= 1 /\ last.name = "list_files" /\ last.input.kind = "object"
\* the directory the call names: the working directory when no path is given
LastDir == PurePath(Get(last.input.obj, "path", <<>>))

\* the entries of f at any depth under dir; none when dir is no directory
EntriesUnder(f, dir) ==
    IF dir # <<>> /\ f[dir].kind # "dir" THEN {}
    ELSE {p \in Paths : /\ Len(p) > Len(dir)
                        /\ SubSeq(p, 1, Len(dir)) = dir
                        /\ f[p].kind # "none"}

\* the name of p relative to its ancestor of n components
RECURSIVE RelativeName(_, _)
RelativeName(p, n) ==
    IF Len(p) = n + 1 THEN p[Len(p)]
    ELSE RelativeName(SubSeq(p, 1, Len(p) - 1), n) \o "/" \o p[Len(p)]

\* how C15 says the entry p is reported
Reported(f, dir, p) ==
    IF f[p].kind = "dir" THEN RelativeName(p, Len(dir)) \o "/"
    ELSE RelativeName(p, Len(dir))

\* C15: list_files returns an array with exactly one element for every entry
\* at any depth under the path, the name of the entry relative to the path,
\* followed by "/" exactly for a directory; it changes nothing.
C15_ListsEveryEntryOnce ==
    LastIsList =>
        LET under == EntriesUnder(last.before, LastDir)
            files == last.result.arg
        IN  /\ last.raised = FALSE
            /\ last.result.tag = "json.dumps({files})"
            /\ Len(files) = Cardinality(under)
            /\ {files[i] : i \in 1..Len(files)}
                  = {Reported(last.before, LastDir, p) : p \in under}
            /\ \A p \in under, q \in under :
                  p # q => Reported(last.before, LastDir, p) # Reported(last.before, LastDir, q)
            /\ fs = last.before

\* d, holding the subdirectory e and the file g and nothing else, was listed:
\* two elements, "e/" and "g"
C15_Witness ==
    /\ LastIsList
    /\ LastDir = <<"d">>
    /\ fs[<<"d", "e">>].kind = "dir"
    /\ fs[<<"d", "e", "f">>].kind = "none"
    /\ fs[GPath].kind = "file"
    /\ Len(last.result.arg) = 2
    /\ {last.result.arg[1], last.result.arg[2]} = {"e/", "g"}

ErrorTags ==
    {"[Errno 21] Is a directory: {path}", "[Errno 20] Not a directory: {path}",
     "[Errno 2] No such file or directory: {path}"}

\* C16: read_file never raises: without a path it returns "Path parameter is
\* required", for a path that is no file the text of the error, for a file its
\* content; it changes nothing.
C16_Original_ReadNeverRaises ==
    (last.n >= 1 /\ last.name = "read_file") =>
        /\ last.raised = FALSE
        /\ fs = last.before
        /\ last.input.kind = "object" =>
              LET d == last.input.obj IN
              IF ~Has(d, "path") THEN last.result = Text("Path parameter is required")
              ELSE IF Lookup(last.before, d["path"]).kind = "file"
              THEN last.result = Str("{content}", last.before[d["path"]].content)
              ELSE last.result.tag \in ErrorTags /\ last.result.arg = d["path"]

-----------------------------------------------------------------------------
(* Claims about Agent.run, under Spec *)

Last(seq) == seq[Len(seq)]

RECURSIVE UserMessages(_)
UserMessages(conv) ==
    IF conv = <<>> THEN 0
    ELSE (IF Last(conv).role = "user" THEN 1 ELSE 0)
         + UserMessages(SubSeq(conv, 1, Len(conv) - 1))

\* the conversation ends with an assistant message carrying calls, followed by
\* one tool message per call, the k-th with the id of the k-th call
EndsWithResultsOf(conv, calls) ==
    LET n == Len(calls)
        a == Len(conv) - n
    IN  /\ a >= 1
        /\ conv[a].role = "assistant"
        /\ conv[a].tool_calls = List(calls)
        /\ \A k \in 1..n : /\ conv[a + k].role = "tool"
                           /\ conv[a + k].tool_call_id = calls[k].id

\* run is done with the reply of the last inference step: it is back at the
\* head of its loop, or an exception has ended it
ReplyHandled == n_infer > 0 /\ pc \in {"loop", "raised"}

\* C1: once run is done with a reply that carries n >= 1 tool calls, the
\* conversation ends with the assistant message followed by the n tool results,
\* the k-th with the id of the k-th call, and the loop is about to call the
\* inference step again without reading the user.
C1_Original_EveryCallAnswered ==
    (ReplyHandled /\ HasToolCalls(message)) =>
        /\ EndsWithResultsOf(conversation, message.tool_calls.items)
        /\ pc = "loop"
        /\ read_user_input = FALSE

\* C2: the loop starts awaiting the user; whenever it is back at its head after a
\* model turn it awaits the user exactly when the reply carried no tool call;
\* and a user message enters the conversation only by a read made while
\* awaiting the user, one message per read.
C2_AtLoopHead ==
    pc = "loop" =>
        IF n_infer = 0 THEN read_user_input = TRUE
        ELSE read_user_input = ~HasToolCalls(message)
C2_UserReadOnlyWhenAwaited ==
    UserMessages(conversation') # UserMessages(conversation) =>
        /\ pc = "loop"
        /\ read_user_input = TRUE
        /\ Len(conversation') = Len(conversation) + 1
        /\ IsPrefix(conversation, conversation')
        /\ Last(conversation').role = "user"
\* C2: the two parts together, the first in every state, the second at every step
C2_TwoStateLoop == []C2_AtLoopHead /\ [][C2_UserReadOnlyWhenAwaited]_vars

\* the loop is back at its head after a reply with two tool calls, not awaiting
\* the user
C2_Witness ==
    /\ pc = "loop"
    /\ Len(message.tool_calls.items) = 2
    /\ read_user_input = FALSE
    /\ UserMessages(conversation) = 1

\* C3: no exception ends run.
C3_Original_NoErrorAborts == pc # "raised"

\* C4: when the remote call fails, the error message is appended as one
\* assistant message with an empty list of tool calls; the loop then executes
\* no tool, calls the inference step no second time and leaves the conversation
\* as it is, and is next at its head awaiting the user (unless interrupted).
C4_FailureStep ==
    (n_infer' = n_infer + 1 /\ message' = ErrorReply) =>
        /\ conversation' = Append(conversation,
                                  [role |-> "assistant", content |-> Text("Error: {e}"),
                                   tool_calls |-> List(<<>>), tool_call_id |-> ""])
        /\ n_exec' = n_exec
        /\ pc' # "raised"
C4_AfterFailure ==
    (pc = "tools" /\ message = ErrorReply) =>
        /\ conversation' = conversation
        /\ n_exec' = n_exec
        /\ n_infer' = n_infer
        /\ fs' = fs
        /\ \/ pc' = "loop" /\ read_user_input' = TRUE
           \/ pc' = "done"
\* C4: both parts, at every step
C4_InferenceFailureIsAMessage == [][C4_FailureStep /\ C4_AfterFailure]_vars

\* the loop awaits the user after a failed remote call
C4_Witness ==
    /\ pc = "loop"
    /\ message = ErrorReply
    /\ read_user_input = TRUE
    /\ Last(conversation).role = "assistant"
    /\ Last(conversation).tool_calls = List(<<>>)

\* C5: the conversation is empty at the start and every step leaves the
\* conversation it found as a prefix of the new one.
C5_AppendOnly == conversation = <<>> /\ [][IsPrefix(conversation, conversation')]_vars

\* the results of two tool calls have been appended after the user's and the
\* assistant's message
C5_Witness ==
    /\ Len(conversation) = 4
    /\ conversation[3].role = "tool"
    /\ conversation[4].role = "tool"

\* C6: a read of the user that yields no line ends run normally: nothing is
\* appended, and no inference step, tool execution or any other step follows.
C6_ReadWithoutLine ==
    (pc = "loop" /\ read_user_input /\ conversation' = conversation) =>
        /\ pc' = "done"
        /\ UNCHANGED <<read_user_input, message, tool_results, idx, n_infer, n_exec, fs>>
C6_NothingAfterReturn == pc = "done" => UNCHANGED vars
\* C6: both parts, at every step
C6_EndOfInputEndsCleanly == [][C6_ReadWithoutLine /\ C6_NothingAfterReturn]_vars

\* run has returned from the prompt after a complete exchange with the model
C6_Witness ==
    /\ pc = "done"
    /\ read_user_input = TRUE
    /\ n_infer >= 1
    /\ idx >= 1
    /\ (HasToolCalls(message) => idx > Len(message.tool_calls.items))
    /\ Last(conversation).role = "assistant"

-----------------------------------------------------------------------------
(* Claims about tool dispatch, under Spec *)

\* the for loop of main.py:64 is at a tool call
AtCall ==
    /\ pc = "tools"
    /\ HasToolCalls(message)
    /\ idx <= Len(message.tool_calls.items)
CurrentCall == message.tool_calls.items[idx]

\* the assistant message at position a of conv, with at least one tool call
CarriesCalls(conv, a) == conv[a].role = "assistant" /\ conv[a].tool_calls.items # <<>>

\* the step that executes a call of a tool that is not registered
C12_UnknownStep ==
    (/\ AtCall
     /\ n_exec' = n_exec + 1
     /\ CurrentCall.function.name \notin tool_functions) =>
        /\ tool_results' = Append(tool_results,
                                  ToolMessage(CurrentCall.id, Text("Tool not found")))
        /\ fs' = fs
        /\ pc' = "tools"
        /\ idx' = idx + 1
\* the tool messages that answer calls of tools that are not registered
C12_Recorded ==
    /\ \A k \in 1..Len(tool_results) :
          message.tool_calls.items[k].function.name \notin tool_functions =>
              tool_results[k] = ToolMessage(message.tool_calls.items[k].id,
                                            Text("Tool not found"))
    /\ \A a \in 1..Len(conversation) :
          CarriesCalls(conversation, a) =>
              \A k \in 1..Len(conversation[a].tool_calls.items) :
                  (/\ a + k <= Len(conversation)
                   /\ conversation[a].tool_calls.items[k].function.name
                          \notin tool_functions) =>
                      conversation[a + k] =
                          ToolMessage(conversation[a].tool_calls.items[k].id,
                                      Text("Tool not found"))
\* C12: for a tool call whose name is not read_file, list_files or edit_file,
\* execute_tool returns "Tool not found" without raising and without a change
\* of the filesystem, the loop goes on to the next call, and the tool message of
\* that call, in tool_results and in the conversation, carries that string.
C12_UnknownToolNotFound == [][C12_UnknownStep]_vars /\ []C12_Recorded

\* the result of a call of delete_file has reached the conversation and the loop
\* is about to call the inference step again
C12_Witness ==
    /\ pc = "loop"
    /\ read_user_input = FALSE
    /\ Len(message.tool_calls.items) = 1
    /\ message.tool_calls.items[1].function.name = "delete_file"
    /\ Last(conversation) = ToolMessage(message.tool_calls.items[1].id,
                                        Text("Tool not found"))

\* a tool function has raised during the tool calls of the last reply
SomeCallRaised ==
    \E k \in 1..Len(tool_results) : tool_results[k].content \in {NotIterable, NoAttributeGet}

\* C13: when a tool function has raised, its message is the result of that
\* call, the other calls of the reply are executed as well, all the results are
\* appended, and the loop calls the inference step again without reading the
\* user.
C13_Original_RaisedThenContinues ==
    (ReplyHandled /\ HasToolCalls(message) /\ SomeCallRaised) =>
        /\ Len(tool_results) = Len(message.tool_calls.items)
        /\ EndsWithResultsOf(conversation, message.tool_calls.items)
        /\ pc = "loop"
        /\ read_user_input = FALSE

-----------------------------------------------------------------------------
(* Claims about main, under Spec *)

\* C17: when OPENROUTER_API_KEY is not set or is empty, the process, once past
\* the test of main, has exited with status 1: run was not entered, so no line
\* of the user was read, no inference step and no tool call was made, and the
\* conversation and the filesystem are as at the start.
C17_NoKeyNoConversation ==
    (pc # "main" /\ (~api_key.set \/ api_key.value = "")) =>
        /\ pc = "exit"
        /\ exit_code = {1}
        /\ conversation = <<>>
        /\ n_infer = 0
        /\ n_exec = 0
        /\ fs = fs_at_reply
        /\ last = NoCall

\* the process has exited with status 1 on an empty key
C17_Witness ==
    /\ api_key = Env("")
    /\ pc = "exit"
    /\ exit_code = {1}

-----------------------------------------------------------------------------
(* Claims about the order of the steps of Agent.run, under Spec *)

\* The filesystem that the first k calls of a reply leave, executed one after
\* another in the order of the list, starting from f.
RECURSIVE FsAfter(_, _, _)
FsAfter(f, calls, k) ==
    IF k = 0 THEN f
    ELSE execute_tool(FsAfter(f, calls, k - 1), calls[k].id, calls[k].function.name,
                      calls[k].function.arguments, CHOOSE order \in ScanOrders : TRUE).fs

\* the k-th result is what the k-th call returns on the filesystem left by the
\* calls before it, and the filesystem is the one the calls made so far leave
C18_EachCallSeesThePrevious ==
    HasToolCalls(message) =>
        LET calls == message.tool_calls.items
        IN  /\ Len(tool_results) <= Len(calls)
            /\ pc = "tools" => idx = Len(tool_results) + 1
            /\ \A k \in 1..Len(tool_results) :
                  \E order \in ScanOrders :
                      tool_results[k] =
                          ToolMessage(calls[k].id,
                                      execute_tool(FsAfter(fs_at_reply, calls, k - 1),
                                                   calls[k].id, calls[k].function.name,
                                                   calls[k].function.arguments,
                                                   order).value)
            /\ fs = FsAfter(fs_at_reply, calls, Len(tool_results))
\* an inference step is one step made when no tool runs, a tool call one step made
\* when no inference step runs; nothing else changes the filesystem
C18_OneAtATime ==
    /\ n_infer' # n_infer =>
          pc = "infer" /\ n_infer' = n_infer + 1 /\ n_exec' = n_exec /\ fs' = fs
    /\ n_exec' # n_exec =>
          /\ pc = "tools"
          /\ n_exec' = n_exec + 1
          /\ n_infer' = n_infer
          /\ Len(tool_results') = Len(tool_results) + 1
    /\ fs' # fs => n_exec' = n_exec + 1
\* C18: the steps of run happen one at a time, an inference step never together
\* with a tool call; the tool calls of a reply are executed in the order of the
\* request, the k-th on the filesystem that the calls 1..k-1 have left.
C18_StrictlySequential == []C18_EachCallSeesThePrevious /\ [][C18_OneAtATime]_vars

\* one reply asked to create d/g and then to edit it, and both calls succeeded
C18_Witness ==
    /\ Len(tool_results) = 2
    /\ fs_at_reply[GPath].kind = "none"
    /\ tool_results[1].content = Created(GPath)
    /\ tool_results[2].content = Text("OK")
    /\ fs[GPath] = FileEntry(<<"b">>)

\* conv[a], an assistant message with n tool calls, is followed by n tool
\* messages, the k-th with the id of the k-th call
Answered(conv, a) ==
    LET calls == conv[a].tool_calls.items
    IN  /\ a + Len(calls) <= Len(conv)
        /\ \A k \in 1..Len(calls) : /\ conv[a + k].role = "tool"
                                    /\ conv[a + k].tool_call_id = calls[k].id

C19_StopStep ==
    (pc # "done" /\ pc' = "done") =>
        /\ \/ pc = "loop" /\ read_user_input
           \/ pc \in {"infer", "tools"}
        /\ conversation' = conversation
        /\ fs' = fs
        /\ exit_code' = {0}
\* when run has returned, every reply with tool calls in the conversation is
\* followed by all of its results, or it is the last message and none follows
C19_AllResultsOrNone ==
    pc = "done" =>
        \A a \in 1..Len(conversation) :
            CarriesCalls(conversation, a) =>
                a = Len(conversation) \/ Answered(conversation, a)
WellFormedTranscript(conv) ==
    /\ conv # <<>>
    /\ Last(conv).role \in {"user", "tool"}
    /\ \A a \in 1..Len(conv) :
          CarriesCalls(conv, a) =>
              LET next == a + Len(conv[a].tool_calls.items) + 1
              IN  /\ Answered(conv, a)
                  /\ next <= Len(conv) => conv[next].role # "tool"
    /\ \A a \in 1..Len(conv) :
          conv[a].role = "tool" =>
              \E b \in 1..(a - 1) :
                  /\ CarriesCalls(conv, b)
                  /\ a <= b + Len(conv[b].tool_calls.items)

\* C20: the conversation that the inference step is called with is not empty,
\* ends with a user message or a tool message, and has after every assistant
\* message with tool calls one tool message for each call, in the order of the
\* calls and with their ids, and no tool message anywhere else.
C20_TranscriptWellFormed == pc = "infer" => WellFormedTranscript(conversation)

\* the inference step is about to be called with the results of two tool calls
C20_Witness ==
    /\ pc = "infer"
    /\ Len(conversation) = 4
    /\ CarriesCalls(conversation, 2)
    /\ conversation[4].role = "tool"
    /\ conversation[4].tool_call_id = CallId(2)

====
